---- MODULE Spec2Model ----
(***************************************************************************)
(* Model of the subtitle translator: the SRT parser and serializer         *)
(* (utils/srtParser), the translation adapter (services/geminiService)     *)
(* and the App component's handlers (App.tsx) that drive a translation     *)
(* run over the React state `file` and `status`.                           *)
(*                                                                         *)
(* The translation direction and the download handler are left out: the    *)
(* direction only selects the languages named in the prompt, and the       *)
(* download neither reads nor writes anything but the finished result.     *)
(*                                                                         *)
(* Strings are sequences of one-character strings, so that trimming,       *)
(* splitting and joining are computed as the code computes them.  A        *)
(* nullable value is <<>> (null) or <<v>>.                                 *)
(***************************************************************************)
EXTENDS Integers, Sequences, FiniteSets

\* ------------------------------------------------------------------------
\* Characters and strings
\* ------------------------------------------------------------------------

NL == "\n"

CR == "\r"

\* The characters String.prototype.trim() strips, among those the model uses.
IsSpace(c) == c \in {" ", "\t", "\n", "\r"}

MinOf(S) == CHOOSE x \in S : \A y \in S : x <= y

MaxOf(S) == CHOOSE x \in S : \A y \in S : y <= x

\* String.prototype.trim()
Trim(s) ==
  LET keep == {k \in 1..Len(s) : ~IsSpace(s[k])}
  IN  IF keep = {} THEN <<>> ELSE SubSeq(s, MinOf(keep), MaxOf(keep))

\* content.replace(/\r\n/g, '\n')
NormalizeCRLF(s) ==
  LET keep == {k \in 1..Len(s) : ~(s[k] = CR /\ k < Len(s) /\ s[k + 1] = NL)}
  IN  IF Cardinality(keep) = Len(s) THEN s
      ELSE [j \in 1..Cardinality(keep) |->
              s[CHOOSE k \in keep : Cardinality({m \in keep : m < k}) = j - 1]]

\* The pieces of s between separators; starts are the first positions of the
\* separators and End[k] the last position of the separator starting at k.
Pieces(s, starts, End) ==
  LET n      == Cardinality(starts)
      nth(j) == CHOOSE k \in starts : Cardinality({m \in starts : m < k}) = j - 1
      from(j) == IF j = 1 THEN 1 ELSE End[nth(j - 1)] + 1
      to(j)   == IF j = n + 1 THEN Len(s) ELSE nth(j) - 1
  IN  [j \in 1..(n + 1) |-> SubSeq(s, from(j), to(j))]

\* The last position of the run of line feeds that starts at k.
RunEnd(s, k) ==
  CHOOSE e \in k..Len(s) :
    /\ \A m \in k..e : s[m] = NL
    /\ (e = Len(s) \/ s[e + 1] # NL)

\* normalized.split(/\n\n+/): a separator is a maximal run of two or more
\* line feeds.
SplitBlankLines(s) ==
  LET starts == {k \in 1..Len(s) :
                   /\ s[k] = NL
                   /\ k < Len(s) /\ s[k + 1] = NL
                   /\ (k = 1 \/ s[k - 1] # NL)}
  IN  Pieces(s, starts, [k \in starts |-> RunEnd(s, k)])

\* raw.split('\n')
SplitLines(s) ==
  LET starts == {k \in 1..Len(s) : s[k] = NL}
  IN  Pieces(s, starts, [k \in starts |-> k])

\* Array.prototype.join
RECURSIVE Join(_, _)
Join(parts, sep) ==
  IF Len(parts) = 0 THEN <<>>
  ELSE IF Len(parts) = 1 THEN parts[1]
  ELSE parts[1] \o sep \o Join(Tail(parts), sep)

\* ------------------------------------------------------------------------
\* JavaScript values that a block's text can hold.  translateChunks returns
\* whatever JSON.parse produced, so an element need not be a string.
\* ------------------------------------------------------------------------

Str(s) == [t |-> "str", v |-> s]

Num(digits) == [t |-> "num", v |-> digits]

NullV == [t |-> "null", v |-> <<>>]

Obj == [t |-> "obj", v |-> <<>>]

\* Truthiness, as the || operator tests it.
Truthy(x) ==
  CASE x.t = "str"  -> x.v # <<>>
    [] x.t = "num"  -> x.v # <<"0">>
    [] x.t = "null" -> FALSE
    [] x.t = "obj"  -> TRUE

\* String conversion inside a template literal.
ToText(x) ==
  CASE x.t = "str"  -> x.v
    [] x.t = "num"  -> x.v
    [] x.t = "null" -> <<"n", "u", "l", "l">>
    [] x.t = "obj"  -> <<"[", "o", "b", "j", "e", "c", "t", " ",
                         "O", "b", "j", "e", "c", "t", "]">>

\* ------------------------------------------------------------------------
\* utils/srtParser
\* ------------------------------------------------------------------------

Block(index, timecode, text) ==
  [index |-> index, timecode |-> timecode, text |-> text]

\* The block a raw candidate yields, as a sequence of zero or one blocks.
ParseRaw(raw) ==
  LET lines == SplitLines(raw)
  IN  IF Len(lines) >= 3
      THEN LET index    == Trim(lines[1])
               timecode == Trim(lines[2])
               text     == Trim(Join(SubSeq(lines, 3, Len(lines)), <<NL>>))
           IN  IF index # <<>> /\ timecode # <<>> /\ text # <<>>
               THEN <<Block(index, timecode, Str(text))>>
               ELSE <<>>
      ELSE <<>>

RECURSIVE ParseAll(_)
ParseAll(rawBlocks) ==
  IF Len(rawBlocks) = 0 THEN <<>>
  ELSE ParseRaw(rawBlocks[1]) \o ParseAll(Tail(rawBlocks))

parseSRT(content) ==
  LET normalized == Trim(NormalizeCRLF(content))
  IN  ParseAll(SplitBlankLines(normalized))

\* A serializer that leaves out the line feed that ends a block.
StringifyBlockUnterminated(block) ==
  block.index \o <<NL>> \o block.timecode \o <<NL>> \o ToText(block.text)

StringifyBlock(block) ==
  block.index \o <<NL>> \o block.timecode \o <<NL>> \o ToText(block.text) \o <<NL>>

stringifySRT(blocks) ==
  Join([k \in 1..Len(blocks) |-> StringifyBlock(blocks[k])], <<NL>>)

\* ------------------------------------------------------------------------
\* The files the user can pick, by their text content
\* ------------------------------------------------------------------------

DigitChar(d) == <<"0", "1", "2", "3", "4", "5", "6", "7", "8", "9">>[d + 1]

RECURSIVE Digits(_)
Digits(n) ==
  IF n < 10 THEN <<DigitChar(n)>>
  ELSE Digits(n \div 10) \o <<DigitChar(n % 10)>>

\* A well-formed document of n blocks: index k, timecode "tk", text "hk".
CanonicalDoc(n) ==
  Join([k \in 1..n |->
          Digits(k) \o <<NL, "t">> \o Digits(k) \o <<NL, "h">> \o Digits(k)],
       <<NL, NL>>)

\* Candidates with a blank text and with two lines only: no block at all.
NoBlockDoc == <<"1", NL, "t", "1", NL, " ", NL, NL, "2", NL, "t", "2">>

\* CRLF line endings, padding, a two-line text, a run of blank lines and a
\* two-line candidate that is dropped: parses to two blocks.
MessyDoc ==
  <<" ", "1", " ", CR, NL, "t", "1", CR, NL, "H", "i", CR, NL, "y", "o", CR, NL,
    CR, NL, CR, NL, "b", "a", "d", NL, "x", NL, NL,
    "2", NL, "t", "2", NL, "W", NL>>

Documents ==
  << <<>>, NoBlockDoc, MessyDoc,
     CanonicalDoc(30), CanonicalDoc(31), CanonicalDoc(60), CanonicalDoc(65) >>

Files == 1..Len(Documents)

\* file === null
NoFile == 0

\* ------------------------------------------------------------------------
\* Nullable values and errors
\* ------------------------------------------------------------------------

Null == <<>>

Some(x) == <<x>>

NoLinesMessage ==
  "No subtitle lines found in the file. Ensure it's a valid .srt or .txt format."

UnexpectedMessage == "An unexpected error occurred during translation."

InvalidFormatMessage == "Invalid response format from translation service"

\* The message of the SyntaxError JSON.parse throws.
SyntaxErrorMessage == "Unexpected token in JSON"

\* Messages of the errors the environment can raise (a rejected remote call,
\* an unreadable file); an error may carry no message.
ThrownMessages == {"", "429 quota exceeded"}

\* ------------------------------------------------------------------------
\* services/geminiService
\* ------------------------------------------------------------------------

\* Outcomes of ai.models.generateContent: a rejection, or a response whose
\* text is missing/empty, is not JSON, or is the JSON of a value.
Rejected(m) == [kind |-> "reject", message |-> m, isArray |-> FALSE, elems |-> <<>>]

MissingText == [kind |-> "missing", message |-> "", isArray |-> FALSE, elems |-> <<>>]

MalformedText == [kind |-> "malformed", message |-> "", isArray |-> FALSE, elems |-> <<>>]

NonArrayJSON == [kind |-> "json", message |-> "", isArray |-> FALSE, elems |-> <<>>]

ArrayJSON(elems) == [kind |-> "json", message |-> "", isArray |-> TRUE, elems |-> elems]

\* How many entries a response may lack or have in excess.
MaxDelta == 1

\* A translation of a text: a different, non-empty string.
Translated(x) == Str(<<"x">> \o x.v)

\* Elements a backend that ignores the schema can put in the array.
OddValues == {Str(<<>>), Num(<<"0">>), Num(<<"7">>), NullV, Obj}

ResponseArrays(texts) ==
  LET n    == Len(texts)
      full == [j \in 1..n |-> Translated(texts[j])]
  IN  {full, texts, <<>>}
      \cup {SubSeq(full, 1, n - k) : k \in {d \in 1..MaxDelta : d <= n}}
      \cup {full \o [j \in 1..k |-> Str(<<"z">>)] : k \in 1..MaxDelta}
      \cup {[full EXCEPT ![1] = w] : w \in OddValues}

Responses(texts) ==
  {Rejected(m) : m \in ThrownMessages}
  \cup {MissingText, MalformedText, NonArrayJSON}
  \cup {ArrayJSON(a) : a \in ResponseArrays(texts)}

Return(value) == [ok |-> TRUE, value |-> value, message |-> ""]

Throw(message) == [ok |-> FALSE, value |-> <<>>, message |-> message]

\* response.text || "[]"
ResponseText(resp) == IF resp.kind = "missing" THEN ArrayJSON(<<>>) ELSE resp

\* Array.isArray(result)
IsArray(json) == json.isArray

\* translateChunks from the await of generateContent on: what it returns or
\* throws for each outcome of the remote call.
translateChunks(resp) ==
  IF resp.kind = "reject" THEN Throw(resp.message)
  ELSE LET text == ResponseText(resp)
       IN  IF text.kind = "malformed" THEN Throw(SyntaxErrorMessage)
           ELSE IF ~IsArray(text) THEN Throw(InvalidFormatMessage)
           ELSE Return(text.elems)

\* ------------------------------------------------------------------------
\* App.tsx
\* ------------------------------------------------------------------------

CHUNK_SIZE == 30

\* How many runs of handleTranslate the model lets be live together.
MaxLive == 2

VARIABLES file, status, runs, rt

vars == <<file, status, runs, rt>>

InitialStatus ==
  [isTranslating |-> FALSE, progress |-> 0, error |-> Null, result |-> Null]

\* An entry update that merges into the previous state.
StartStatusMerges(prev) == [prev EXCEPT !.isTranslating = TRUE, !.progress = 0]

\* The state handleTranslate sets on entry.
StartStatus(prev) ==
  [isTranslating |-> TRUE, progress |-> 0, error |-> Null, result |-> Null]

\* The locals of one call of handleTranslate, with what it has done so far:
\* calls, callSizes, sent and reported record the translateChunks calls
\* issued, their input lengths, their inputs concatenated and the progress
\* values set; body the kind of the last response and thrown the error caught.
NewRun(f) ==
  [pc |-> "reading", file |-> f, parsed |-> FALSE, blocks |-> <<>>,
   totalChunks |-> 0, i |-> 0, textsToTranslate |-> <<>>,
   translatedTexts |-> <<>>, translatedBlocks |-> <<>>,
   calls |-> 0, callSizes |-> <<>>, sent |-> <<>>, reported |-> <<>>,
   body |-> "none", thrown |-> Null]

IsLive(run) == run.pc \in {"reading", "sleeping", "calling"}

LiveRuns == SelectSeq(runs, IsLive)

\* !status.result
HasResult(st) == st.result # Null /\ st.result[1] # <<>>

\* A button that stays enabled while a run is in progress.
CanTranslateWhileRunning ==
  /\ file # NoFile
  /\ ~HasResult(status)

\* The Translate Now button is rendered and enabled, and file is set.
CanTranslate ==
  /\ file # NoFile
  /\ ~status.isTranslating
  /\ ~HasResult(status)

\* Array.prototype.slice(from, to), zero-based
Slice(s, from, to) == SubSeq(s, from + 1, IF to < Len(s) THEN to ELSE Len(s))

\* Math.ceil(blocks.length / CHUNK_SIZE)
TotalChunks(n) == (n + CHUNK_SIZE - 1) \div CHUNK_SIZE

\* blocks.slice(i * CHUNK_SIZE, (i + 1) * CHUNK_SIZE)
ChunkOf(blocks, i) == Slice(blocks, i * CHUNK_SIZE, (i + 1) * CHUNK_SIZE)

\* chunk.map(b => b.text)
TextsOf(chunk) == [j \in 1..Len(chunk) |-> chunk[j].text]

\* translatedTexts[index] || block.text, index = j - 1
MergedText(translatedTexts, j, block) ==
  IF j <= Len(translatedTexts) /\ Truthy(translatedTexts[j])
  THEN translatedTexts[j]
  ELSE block.text

\* A merge that walks the response instead of the chunk.
MergeChunkByResponse(chunk, translatedTexts) ==
  LET m == IF Len(translatedTexts) < Len(chunk) THEN Len(translatedTexts)
           ELSE Len(chunk)
  IN  [j \in 1..m |->
         [chunk[j] EXCEPT !.text = MergedText(translatedTexts, j, chunk[j])]]

\* The blocks chunk.forEach pushes.
MergeChunk(chunk, translatedTexts) ==
  [j \in 1..Len(chunk) |->
     [chunk[j] EXCEPT !.text = MergedText(translatedTexts, j, chunk[j])]]

\* Math.ceil in place of Math.round.
CurrentProgressCeil(i, totalChunks) ==
  (100 * (i + 1) + totalChunks - 1) \div totalChunks

\* Math.round(((i + 1) / totalChunks) * 100): halves round up.
CurrentProgress(i, totalChunks) ==
  (200 * (i + 1) + totalChunks) \div (2 * totalChunks)

\* err.message || "An unexpected error occurred during translation."
ErrorText(message) == IF message = "" THEN UnexpectedMessage ELSE message

\* A catch block that also resets the progress.
CatchStatusResetsProgress(prev, message) ==
  [prev EXCEPT !.isTranslating = FALSE, !.progress = 0,
               !.error = Some(ErrorText(message))]

\* The catch block's update of the state.
CatchStatus(prev, message) ==
  [prev EXCEPT !.isTranslating = FALSE, !.error = Some(ErrorText(message))]

\* The update that ends a successful run.
SuccessStatus(prev, finalSRT) ==
  [prev EXCEPT !.isTranslating = FALSE, !.result = Some(finalSRT)]

\* handleFileChange's update.
FileChangeStatus(prev) ==
  [prev EXCEPT !.result = Null, !.error = Null, !.progress = 0]

\* The update of the Translate another file button.
AnotherFileStatus(st) == [st EXCEPT !.result = Null, !.progress = 0]

\* No check for an empty parse.
NoBlocksUnchecked(blocks) == FALSE

\* blocks.length === 0
NoBlocks(blocks) == Len(blocks) = 0

\* The round trip of the parser and serializer, taken alone (SpecRT).
RTIdle == [pc |-> "idle", blocks |-> <<>>, text |-> <<>>, parsed |-> <<>>]

Init ==
  /\ file = NoFile
  /\ status = InitialStatus
  /\ runs = <<>>
  /\ rt = RTIdle

\* The user picks a file; the upload area is never disabled.
HandleFileChange(f) ==
  /\ file' = f
  /\ status' = FileChangeStatus(status)
  /\ UNCHANGED <<runs, rt>>

\* A click on Translate Now: handleTranslate up to its first await.
HandleTranslate ==
  /\ CanTranslate
  /\ Len(LiveRuns) < MaxLive
  /\ status' = StartStatus(status)
  /\ runs' = Append(LiveRuns, NewRun(file))
  /\ UNCHANGED <<file, rt>>

\* The catch block, for run r.
Catch(r, run, message) ==
  /\ status' = CatchStatus(status, message)
  /\ runs' = [runs EXCEPT ![r] =
                [run EXCEPT !.pc = "failed", !.thrown = Some(message)]]

\* translateChunks is called with run.textsToTranslate.
IssueCall(run) ==
  [run EXCEPT !.pc = "calling", !.calls = @ + 1,
              !.callSizes = Append(@, Len(run.textsToTranslate)),
              !.sent = @ \o run.textsToTranslate]

\* The head of the for loop, with st the state after the updates made so
\* far in this step: take the next chunk and wait (i > 0) or call at once,
\* or leave the loop, serialize and finish.
LoopHead(r, run, st) ==
  IF run.i < run.totalChunks
  THEN LET next == [run EXCEPT !.textsToTranslate =
                                 TextsOf(ChunkOf(run.blocks, run.i))]
       IN  /\ status' = st
           /\ runs' = [runs EXCEPT ![r] =
                         IF run.i > 0 THEN [next EXCEPT !.pc = "sleeping"]
                         ELSE IssueCall(next)]
  ELSE /\ status' = SuccessStatus(st, stringifySRT(run.translatedBlocks))
       /\ runs' = [runs EXCEPT ![r] = [run EXCEPT !.pc = "done"]]

\* file.text() resolves: parse, then throw on no blocks or enter the loop.
FileRead(r) ==
  /\ runs[r].pc = "reading"
  /\ LET blocks == parseSRT(Documents[runs[r].file])
         run    == [runs[r] EXCEPT !.parsed = TRUE, !.blocks = blocks]
     IN  IF NoBlocks(blocks)
         THEN Catch(r, run, NoLinesMessage)
         ELSE LoopHead(r, [run EXCEPT !.totalChunks = TotalChunks(Len(blocks)),
                                      !.i = 0],
                       status)
  /\ UNCHANGED <<file, rt>>

\* file.text() rejects.
FileReadFails(r) ==
  /\ runs[r].pc = "reading"
  /\ \E m \in ThrownMessages : Catch(r, runs[r], m)
  /\ UNCHANGED <<file, rt>>

\* The 500 ms timer before a later chunk fires: translateChunks is called.
DelayElapses(r) ==
  /\ runs[r].pc = "sleeping"
  /\ runs' = [runs EXCEPT ![r] = IssueCall(runs[r])]
  /\ UNCHANGED <<file, status, rt>>

\* translateChunks returns: merge, report progress, next iteration.
CallReturns(r) ==
  /\ runs[r].pc = "calling"
  /\ \E resp \in Responses(runs[r].textsToTranslate) :
       LET out    == translateChunks(resp)
           run    == runs[r]
           chunk  == ChunkOf(run.blocks, run.i)
           p      == CurrentProgress(run.i, run.totalChunks)
       IN  /\ out.ok
           /\ LoopHead(r,
                [run EXCEPT !.translatedTexts = out.value,
                            !.translatedBlocks = @ \o MergeChunk(chunk, out.value),
                            !.body = resp.kind,
                            !.reported = Append(@, p),
                            !.i = @ + 1],
                [status EXCEPT !.progress = p])
  /\ UNCHANGED <<file, rt>>

\* translateChunks throws.
CallThrows(r) ==
  /\ runs[r].pc = "calling"
  /\ \E resp \in Responses(runs[r].textsToTranslate) :
       LET out == translateChunks(resp)
       IN  /\ ~out.ok
           /\ Catch(r, [runs[r] EXCEPT !.body = resp.kind], out.message)
  /\ UNCHANGED <<file, rt>>

\* A click on Translate another file, shown while there is a result.
TranslateAnother ==
  /\ HasResult(status)
  /\ status' = AnotherFileStatus(status)
  /\ UNCHANGED <<file, runs, rt>>

Next ==
  \/ \E f \in Files : HandleFileChange(f)
  \/ HandleTranslate
  \/ TranslateAnother
  \/ \E r \in 1..Len(runs) : FileRead(r)
  \/ \E r \in 1..Len(runs) : FileReadFails(r)
  \/ \E r \in 1..Len(runs) : DelayElapses(r)
  \/ \E r \in 1..Len(runs) : CallReturns(r)
  \/ \E r \in 1..Len(runs) : CallThrows(r)

Spec == Init /\ [][Next]_vars

\* ------------------------------------------------------------------------
\* The serializer and the parser applied in turn to given blocks
\* ------------------------------------------------------------------------

\* The longest text of a given block.
MaxText == 4

TextChars == {"a", " ", NL, CR}

\* The strings of at most max characters.
Texts(max) == UNION {[1..n -> TextChars] : n \in 0..max}

\* Index and timecode values: plain, padded, with a space and with a line
\* feed inside.
Keys == {<<"1">>, <<" ", "1">>, <<"1", " ", "2">>, <<"1", NL, "2">>}

GivenBlocks(max) ==
  {Block(i, t, Str(x)) : i \in Keys, t \in Keys, x \in Texts(max)}

PlainBlock == Block(<<"7">>, <<"t", "7">>, Str(<<"z">>))

\* No block, one block, and a block before or after a plain one.
GivenSequences(max) ==
  LET given == GivenBlocks(max)
  IN  {<<>>} \cup {<<b>> : b \in given}
             \cup {<<b, PlainBlock>> : b \in given}
             \cup {<<PlainBlock, b>> : b \in given}

InitRT ==
  /\ file = NoFile
  /\ status = InitialStatus
  /\ runs = <<>>
  /\ \E bs \in GivenSequences(MaxText) :
       rt = [pc |-> "given", blocks |-> bs, text |-> <<>>, parsed |-> <<>>]

Serialize ==
  /\ rt.pc = "given"
  /\ rt' = [rt EXCEPT !.pc = "serialized", !.text = stringifySRT(rt.blocks)]
  /\ UNCHANGED <<file, status, runs>>

Reparse ==
  /\ rt.pc = "serialized"
  /\ rt' = [rt EXCEPT !.pc = "parsed", !.parsed = parseSRT(rt.text)]
  /\ UNCHANGED <<file, status, runs>>

NextRT == Serialize \/ Reparse

SpecRT == InitRT /\ [][NextRT]_vars

\* ------------------------------------------------------------------------
\* Properties
\* ------------------------------------------------------------------------

RunIds == 1..Len(runs)

IsPrefix(a, b) == Len(a) <= Len(b) /\ a = SubSeq(b, 1, Len(a))

AllStrings(values) == \A j \in 1..Len(values) : values[j].t = "str"

\* A step in which run r, live before, stays in place and ends.
Ends(r) ==
  /\ Len(runs') = Len(runs)
  /\ IsLive(runs[r])
  /\ ~IsLive(runs'[r])

\* C1: the blocks merged so far are, position by position, the parsed blocks
\* with their index and timecode unchanged, whatever the adapter returned;
\* after j completed batches they are the first min(30 j, n) blocks and a
\* finished run has merged exactly as many blocks as were parsed.
C1_OrderPreserved ==
  \A r \in RunIds :
    LET run == runs[r]
        n   == Len(run.translatedBlocks)
        upto == CHUNK_SIZE * Len(run.reported)
    IN  /\ n = (IF upto < Len(run.blocks) THEN upto ELSE Len(run.blocks))
        /\ \A k \in 1..n :
             /\ run.translatedBlocks[k].index = run.blocks[k].index
             /\ run.translatedBlocks[k].timecode = run.blocks[k].timecode
        /\ run.pc = "done" =>
             /\ n = Len(run.blocks)
             /\ status.result # Null =>
                  status.result = Some(stringifySRT(run.translatedBlocks))

\* A finished run over more than one batch whose last response was longer
\* or shorter than its batch and changed some text.
C1_Witness ==
  \E r \in RunIds :
    /\ runs[r].pc = "done"
    /\ Len(runs[r].blocks) > CHUNK_SIZE
    /\ Len(runs[r].translatedTexts) # runs[r].callSizes[runs[r].calls]
    /\ \E k \in 1..Len(runs[r].blocks) :
         runs[r].translatedBlocks[k].text # runs[r].blocks[k].text

\* C2: in the batch merged last, a position the response covers gets exactly
\* the response's element, whatever its value, and a position it does not
\* cover keeps the original text (stated here for responses of strings).
C2_ElementAlwaysTaken ==
  \A r \in RunIds :
    LET run   == runs[r]
        b     == run.i - 1
        chunk == ChunkOf(run.blocks, b)
    IN  (Len(run.reported) > 0 /\ AllStrings(run.translatedTexts)) =>
          \A j \in 1..Len(chunk) :
            run.translatedBlocks[b * CHUNK_SIZE + j].text =
              IF j <= Len(run.translatedTexts) THEN run.translatedTexts[j]
              ELSE chunk[j].text

C3_AtMostOne == status.result = Null \/ status.error = Null

C3_ExactlyOne(st) == (st.result # Null) # (st.error # Null)

\* C3 as stated: result and error are never populated together and, in
\* every state where a run has ended and none is in progress, exactly one
\* of them is populated.
C3_ExactlyOneOnceEnded ==
  /\ C3_AtMostOne
  /\ (~status.isTranslating /\ \E r \in RunIds : ~IsLive(runs[r])) =>
       C3_ExactlyOne(status)

\* C3 amended: result and error are never populated together; the step that
\* ends a run leaves isTranslating false and exactly one of them populated
\* (result after a success, error after a failure); and while no run is in
\* progress that stays so until a file selection, a click on Translate
\* another file or the start of a new run clears it.
C3_ExactlyOneUntilCleared ==
  /\ [](C3_AtMostOne)
  /\ [][\A r \in RunIds : Ends(r) =>
          /\ ~status'.isTranslating
          /\ runs'[r].pc = "done" =>
               status'.result # Null /\ status'.error = Null
          /\ runs'[r].pc = "failed" =>
               status'.error # Null /\ status'.result = Null]_vars
  /\ [][(~status.isTranslating /\ C3_ExactlyOne(status)
          /\ ~C3_ExactlyOne(status')) =>
          status' \in {FileChangeStatus(status), AnotherFileStatus(status),
                       StartStatus(status)}]_vars

\* A run that failed after a completed batch, its error still shown.
C3_Witness ==
  \E r \in RunIds :
    /\ runs[r].pc = "failed"
    /\ Len(runs[r].reported) > 0
    /\ status.error # Null
    /\ status.result = Null
    /\ ~status.isTranslating

\* C4: while a run is in progress no step lowers progress, progress stays
\* within 0..100, and a populated result comes with progress 100.
C4_ProgressMonotone ==
  [][/\ (status.isTranslating /\ status'.isTranslating) =>
          status'.progress >= status.progress
     /\ status'.progress \in 0..100
     /\ status'.result # Null => status'.progress = 100]_vars

\* The files whose content parses to no block.
EmptyFiles == {f \in Files : parseSRT(Documents[f]) = <<>>}

\* C5: a run whose file content parses to zero blocks has ended as failed
\* with the No subtitle lines found error, having called translateChunks
\* never; the step that ends it leaves error set to that message, result
\* null and isTranslating false.
C5_EmptyInputFails ==
  /\ [](\A r \in RunIds :
          (runs[r].parsed /\ runs[r].file \in EmptyFiles) =>
            /\ runs[r].pc = "failed"
            /\ runs[r].calls = 0
            /\ runs[r].thrown = Some(NoLinesMessage))
  /\ [][\A r \in RunIds :
          (Ends(r) /\ runs'[r].parsed /\ runs[r].file \in EmptyFiles) =>
            /\ status'.error = Some(NoLinesMessage)
            /\ status'.result = Null
            /\ ~status'.isTranslating]_vars

\* A run over a file with candidates but no valid block has failed.
C5_Witness ==
  \E r \in RunIds :
    /\ runs[r].parsed
    /\ Documents[runs[r].file] = NoBlockDoc
    /\ runs[r].pc = "failed"
    /\ status.error = Some(NoLinesMessage)

\* A step in which translateChunks throws in run r.
ThrowsOnCall(r) == Ends(r) /\ runs[r].pc = "calling" /\ runs'[r].pc = "failed"

\* What a failed call leaves behind apart from the error text: the run is
\* over with no result, progress is as it was, and the failing call is the
\* last one of the run, issued once (one call more than calls returned).
C6_Aborts ==
  \A r \in RunIds : ThrowsOnCall(r) =>
    /\ ~status'.isTranslating
    /\ status'.result = Null
    /\ status'.progress = status.progress
    /\ runs'[r].calls = runs[r].calls
    /\ runs'[r].calls = Len(runs'[r].reported) + 1
    /\ runs'[r].callSizes = runs[r].callSizes

\* C6 as stated: a throwing call aborts the run with no retry and error is
\* the thrown error's message verbatim.
C6_MessageVerbatim ==
  [][/\ C6_Aborts
     /\ \A r \in RunIds : ThrowsOnCall(r) =>
          status'.error = runs'[r].thrown]_vars

\* C6 amended: a throwing call aborts the run with no retry, and error is
\* the thrown error's message verbatim when it has one, else the text
\* An unexpected error occurred during translation.
C6_MessageOrDefault ==
  [][/\ C6_Aborts
     /\ \A r \in RunIds : ThrowsOnCall(r) =>
          status'.error =
            (IF runs'[r].thrown = Some("") THEN Some(UnexpectedMessage)
             ELSE runs'[r].thrown)]_vars

\* A run whose second or later call threw, the earlier progress retained.
C6_Witness ==
  \E r \in RunIds :
    /\ runs[r].pc = "failed"
    /\ runs[r].calls >= 2
    /\ runs[r].calls = Len(runs[r].reported) + 1
    /\ status.error = runs[r].thrown
    /\ status.progress = runs[r].reported[Len(runs[r].reported)]
    /\ ~status.isTranslating

\* C7: at most one translateChunks call is in flight; call k (from 0) is
\* issued after the k calls before it returned and carries the texts of
\* blocks [30k, min(30(k+1), n)), a non-empty batch; a finished run made
\* ceil(n/30) calls whose inputs, concatenated, are the parsed texts.
C7_SequentialPartition ==
  /\ Cardinality({r \in RunIds : runs[r].pc = "calling"}) <= 1
  /\ \A r \in RunIds :
       LET run == runs[r]
           n   == Len(run.blocks)
           k   == run.calls - 1
           hi  == IF CHUNK_SIZE * (k + 1) < n THEN CHUNK_SIZE * (k + 1) ELSE n
       IN  /\ run.pc = "calling" =>
                /\ Len(run.reported) = k
                /\ hi > CHUNK_SIZE * k
                /\ run.textsToTranslate =
                     [j \in 1..(hi - CHUNK_SIZE * k) |->
                        run.blocks[CHUNK_SIZE * k + j].text]
           /\ run.pc \in {"sleeping", "done"} => Len(run.reported) = run.calls
           /\ run.pc = "done" =>
                /\ n >= 1
                /\ CHUNK_SIZE * (run.calls - 1) < n
                /\ n <= CHUNK_SIZE * run.calls
                /\ run.sent = TextsOf(run.blocks)

\* A finished run of three calls.
C7_Witness ==
  \E r \in RunIds :
    /\ runs[r].pc = "done"
    /\ runs[r].calls = 3
    /\ Len(runs[r].blocks) = 65

\* C8 as stated: over 65 blocks the calls carry 30, 30 and 5 texts and the
\* progress set after them is 34, 67 and 100.
C8_Progress34 ==
  \A r \in RunIds :
    Len(runs[r].blocks) = 65 =>
      /\ IsPrefix(runs[r].callSizes, <<30, 30, 5>>)
      /\ IsPrefix(runs[r].reported, <<34, 67, 100>>)
      /\ runs[r].pc = "done" => Len(runs[r].reported) = 3

\* C8 amended: over 65 blocks the calls carry 30, 30 and 5 texts and the
\* progress set after them is 33, 67 and 100.
C8_Progress33 ==
  \A r \in RunIds :
    Len(runs[r].blocks) = 65 =>
      /\ IsPrefix(runs[r].callSizes, <<30, 30, 5>>)
      /\ IsPrefix(runs[r].reported, <<33, 67, 100>>)
      /\ runs[r].pc = "done" =>
           Len(runs[r].reported) = 3 /\ Len(runs[r].callSizes) = 3

\* A finished run over the 65 blocks.
C8_Witness ==
  \E r \in RunIds :
    /\ Len(runs[r].blocks) = 65
    /\ runs[r].pc = "done"
    /\ status.progress = 100

NonEmptyFields(b) ==
  b.index # <<>> /\ b.timecode # <<>> /\ b.text.t = "str" /\ b.text.v # <<>>

HasPair(s, c, d) == \E k \in 1..(Len(s) - 1) : s[k] = c /\ s[k + 1] = d

HasChar(s, c) == \E k \in 1..Len(s) : s[k] = c

\* The form the container format can hold: string fields, non-empty and
\* unchanged by trimming, index and timecode on one line, and a text with
\* neither a blank line nor a CR LF pair.
IsCanonical(b) ==
  /\ NonEmptyFields(b)
  /\ Trim(b.index) = b.index /\ ~HasChar(b.index, NL)
  /\ Trim(b.timecode) = b.timecode /\ ~HasChar(b.timecode, NL)
  /\ Trim(b.text.v) = b.text.v
  /\ ~HasPair(b.text.v, NL, NL)
  /\ ~HasPair(b.text.v, CR, NL)

\* C9 as stated: blocks whose three fields are non-empty strings come back
\* from parseSRT(stringifySRT(blocks)) unchanged.
C9_RoundTripNonEmpty ==
  (rt.pc = "parsed" /\ \A k \in 1..Len(rt.blocks) : NonEmptyFields(rt.blocks[k]))
    => rt.parsed = rt.blocks

\* C9 amended: blocks whose fields are non-empty strings unchanged by
\* trimming, with index and timecode on one line and a text with no blank
\* line and no CR LF pair, come back from parseSRT(stringifySRT(blocks))
\* unchanged: same number, same order, same field values.
C9_RoundTripCanonical ==
  (rt.pc = "parsed" /\ \A k \in 1..Len(rt.blocks) : IsCanonical(rt.blocks[k]))
    => rt.parsed = rt.blocks

\* Two blocks in that form, one with a text of several lines, re-parsed.
C9_Witness ==
  /\ rt.pc = "parsed"
  /\ Len(rt.blocks) = 2
  /\ \A k \in 1..2 : IsCanonical(rt.blocks[k])
  /\ \E k \in 1..2 : HasChar(rt.blocks[k].text.v, NL)
  /\ rt.parsed = rt.blocks

\* C10: whenever translateChunks has returned normally (the last call of a
\* run that has not failed), the response body was a JSON array and every
\* element of it a string.
C10_OnlyStringArraysReturn ==
  \A r \in RunIds :
    (Len(runs[r].reported) > 0 /\ runs[r].pc # "failed") =>
      /\ runs[r].body = "json"
      /\ AllStrings(runs[r].translatedTexts)
====
